---------------------------- MODULE Spec2Model ----------------------------
(***************************************************************************)
(* ImpactModel (urban futures/cpp): a linear regression artifact that is   *)
(* loaded from a JSON document by loadModel and evaluated by predict.      *)
(*                                                                         *)
(* Doubles are modelled as exact rationals [n, d] (d > 0, lowest terms).   *)
(* All values that occur are small dyadic rationals, on which IEEE-754     *)
(* double arithmetic is exact, and the literal 1e-6, which is only ever    *)
(* compared, never computed with.                                          *)
(***************************************************************************)
EXTENDS Integers, Sequences, FiniteSets

\* ------------------------------------------------------------------------
\* Bounds of the model
\* ------------------------------------------------------------------------
\* longest array in a document and longest feature vector
MaxLen == 2

\* ------------------------------------------------------------------------
\* Rational arithmetic standing for double arithmetic
\* ------------------------------------------------------------------------
Abs(x) == IF x < 0 THEN -x ELSE x

RECURSIVE Gcd(_, _)
Gcd(a, b) == IF b = 0 THEN a ELSE Gcd(b, a % b)

Rat(n, d) ==
    LET s == IF d < 0 THEN -1 ELSE 1
        g == Gcd(Abs(n), Abs(d))
    IN  [n |-> (s * n) \div g, d |-> (s * d) \div g]

R(k) == [n |-> k, d |-> 1]
Zero == R(0)

RAdd(a, b) == Rat(a.n * b.d + b.n * a.d, a.d * b.d)
RSub(a, b) == Rat(a.n * b.d - b.n * a.d, a.d * b.d)
RMul(a, b) == Rat(a.n * b.n, a.d * b.d)
\* only used with b > 0
RDiv(a, b) == Rat(a.n * b.d, a.d * b.n)
RGt(a, b)  == a.n * b.d > b.n * a.d

\* the literal 1e-6 of normalize
ScaleEpsilon == [n |-> 1, d |-> 1000000]

\* ------------------------------------------------------------------------
\* Inputs: documents and feature vectors
\* ------------------------------------------------------------------------
Lens == 0..MaxLen

\* arrays of a document are prefixes of one base sequence per key
CoefAt(i)  == IF i % 2 = 1 THEN R(2) ELSE R(-1)
MeanAt(i)  == IF i % 2 = 1 THEN R(1) ELSE R(0)
ScaleAt(i) == CASE i % 4 = 1 -> R(2)
                [] i % 4 = 2 -> R(0)
                [] i % 4 = 3 -> R(-1)
                [] OTHER     -> ScaleEpsilon
\* feature vectors are prefixes of <<5,2,5,2..>>, <<5,3,5,3..>>, <<3,2,3,2..>>
FeatureAt(b, i) ==
    IF i % 2 = 1 THEN (IF b = 3 THEN R(3) ELSE R(5))
                 ELSE (IF b = 2 THEN R(3) ELSE R(2))

CoefArrays  == {[i \in 1..k |-> CoefAt(i)]  : k \in Lens}
MeanArrays  == {[i \in 1..k |-> MeanAt(i)]  : k \in Lens}
ScaleArrays == {[i \in 1..k |-> ScaleAt(i)] : k \in Lens}
InterceptVals == {R(1)}

\* A key of the document that loadModel reads as an array.
\*   absent   : j.contains(key) is false
\*   nonarray : present, is_array() is false
\*   array    : present array; vals are its leading numeric elements and
\*              bad says that a non-numeric element follows them, on which
\*              val.get<double>() throws
Absent == [kind |-> "absent", vals |-> <<>>, bad |-> FALSE]
NonArray == [kind |-> "nonarray", vals |-> <<>>, bad |-> FALSE]
ArrayKeys(arrays) ==
    {Absent, NonArray} \cup
    {[kind |-> "array", vals |-> a, bad |-> FALSE] : a \in arrays} \cup
    {[kind |-> "array", vals |-> a, bad |-> TRUE] :
        a \in {v \in arrays : Len(v) < MaxLen}}

\* The intercept key: absent, a number, or present with a type on which
\* get<double>() throws.
InterceptKeys ==
    {[kind |-> "absent", val |-> Zero], [kind |-> "nonnumber", val |-> Zero]}
    \cup {[kind |-> "number", val |-> v] : v \in InterceptVals}

Throws(key) == key.kind = "array" /\ key.bad

\* Keys after the first throwing one are never read; they are fixed to
\* absent so that each behaviour of loadModel is enumerated once.
Canonical(doc) ==
    /\ Throws(doc.coef) =>
          doc.intercept.kind = "absent" /\ doc.scaler_mean = Absent
          /\ doc.scaler_scale = Absent
    /\ doc.intercept.kind = "nonnumber" =>
          doc.scaler_mean = Absent /\ doc.scaler_scale = Absent
    /\ Throws(doc.scaler_mean) => doc.scaler_scale = Absent

AllJsonDocs ==
    [file : {"json"},
     coef : ArrayKeys(CoefArrays),
     intercept : InterceptKeys,
     scaler_mean : ArrayKeys(MeanArrays),
     scaler_scale : ArrayKeys(ScaleArrays)]

JsonDocs == {doc \in AllJsonDocs : Canonical(doc)}

\* file is "unopenable" (is_open() false), "unparseable" (file >> j throws)
\* or "json"; a JSON value that is no object contains no key and is the
\* document with all four keys absent
NoJson(f) == [file |-> f, coef |-> Absent,
              intercept |-> [kind |-> "absent", val |-> Zero],
              scaler_mean |-> Absent, scaler_scale |-> Absent]

Docs == {NoJson("unopenable"), NoJson("unparseable")} \cup JsonDocs

FeatureVectors == {[i \in 1..k |-> FeatureAt(b, i)] : b \in 1..3, k \in Lens}

\* what an out-of-range element read may yield
GarbageVals == {R(0), R(1)}

\* ------------------------------------------------------------------------
\* State
\* ------------------------------------------------------------------------
VARIABLES
    loaded_, n_features_, coefficients_, intercept_, scaler_mean_, scaler_scale_,
    pc,            \* "running", or "crashed" after a faulting element read
    lastCall,      \* "none", "loadModel" or "predict"
    loadRet,       \* value returned by the last loadModel call
    features,      \* argument of the last predict call
    outcome,       \* how the last predict call ended
    predictRet     \* value returned by the last predict call

fields == <<loaded_, n_features_, coefficients_, intercept_, scaler_mean_, scaler_scale_>>
vars == <<loaded_, n_features_, coefficients_, intercept_, scaler_mean_, scaler_scale_,
          pc, lastCall, loadRet, features, outcome, predictRet>>

Init ==
    /\ loaded_ = FALSE
    /\ n_features_ = 0
    /\ coefficients_ = <<>>
    /\ intercept_ = Zero
    /\ scaler_mean_ = <<>>
    /\ scaler_scale_ = <<>>
    /\ pc = "running"
    /\ lastCall = "none"
    /\ loadRet = FALSE
    /\ features = <<>>
    /\ outcome = "none"
    /\ predictRet = Zero

\* ------------------------------------------------------------------------
\* loadModel
\* ------------------------------------------------------------------------
\* variant: a present key that is no array empties the field
ExtractArrayClearing(key, old) ==
    IF key.kind = "array" THEN key.vals
    ELSE IF key.kind = "nonarray" THEN <<>> ELSE old

\* if (j.contains(key) && j[key].is_array()) { field.clear(); push_back... }
ExtractArray(key, old) == IF key.kind = "array" THEN key.vals ELSE old

\* if (j.contains("intercept")) intercept_ = j["intercept"].get<double>();
ExtractIntercept(key, old) == IF key.kind = "number" THEN key.val ELSE old

\* variant: the gate forgets scaler_scale
InvalidDimensionsNoScale(n, mean, scale) ==
    n = 0 \/ Len(mean) # n

\* the validation gate: the load is rejected when this holds
InvalidDimensions(n, mean, scale) ==
    n = 0 \/ Len(mean) # n \/ Len(scale) # n

\* variant: a failing load marks the instance unloaded
LoadedOnFailureReset(old) == FALSE

\* the value loaded_ has when loadModel returns false
LoadedOnFailure(old) == old

\* The artifact and the return value after loadModel(doc) on artifact st.
LoadModelResult(doc, st) ==
    LET coef1  == ExtractArray(doc.coef, st.coefficients)
        icpt1  == ExtractIntercept(doc.intercept, st.intercept)
        mean1  == ExtractArray(doc.scaler_mean, st.scaler_mean)
        scale1 == ExtractArray(doc.scaler_scale, st.scaler_scale)
        n1     == Len(coef1)
        failed(c, i, m, s, n) ==
            [loaded |-> LoadedOnFailure(st.loaded), n_features |-> n,
             coefficients |-> c, intercept |-> i,
             scaler_mean |-> m, scaler_scale |-> s, ret |-> FALSE]
    IN  IF doc.file # "json"
          THEN failed(st.coefficients, st.intercept, st.scaler_mean,
                      st.scaler_scale, st.n_features)
        ELSE IF Throws(doc.coef)
          THEN failed(coef1, st.intercept, st.scaler_mean,
                      st.scaler_scale, st.n_features)
        ELSE IF doc.intercept.kind = "nonnumber"
          THEN failed(coef1, st.intercept, st.scaler_mean,
                      st.scaler_scale, st.n_features)
        ELSE IF Throws(doc.scaler_mean)
          THEN failed(coef1, icpt1, mean1, st.scaler_scale, st.n_features)
        ELSE IF Throws(doc.scaler_scale)
          THEN failed(coef1, icpt1, mean1, scale1, st.n_features)
        ELSE IF InvalidDimensions(n1, mean1, scale1)
          THEN failed(coef1, icpt1, mean1, scale1, n1)
        ELSE [loaded |-> TRUE, n_features |-> n1,
              coefficients |-> coef1, intercept |-> icpt1,
              scaler_mean |-> mean1, scaler_scale |-> scale1, ret |-> TRUE]

Artifact ==
    [loaded |-> loaded_, n_features |-> n_features_,
     coefficients |-> coefficients_, intercept |-> intercept_,
     scaler_mean |-> scaler_mean_, scaler_scale |-> scaler_scale_]

loadModel(doc) ==
    /\ pc = "running"
    /\ \E r \in {LoadModelResult(doc, Artifact)} :
           /\ loaded_' = r.loaded
           /\ n_features_' = r.n_features
           /\ coefficients_' = r.coefficients
           /\ intercept_' = r.intercept
           /\ scaler_mean_' = r.scaler_mean
           /\ scaler_scale_' = r.scaler_scale
           /\ loadRet' = r.ret
    /\ lastCall' = "loadModel"
    /\ features' = <<>>
    /\ outcome' = "none"
    /\ predictRet' = Zero
    /\ pc' = pc

\* ------------------------------------------------------------------------
\* predict
\* ------------------------------------------------------------------------
\* v[i] of a std::vector (0-based i is i+1 here); g is what the read yields
\* when the index is not below v.size()
At(v, i, g) == IF i <= Len(v) THEN v[i] ELSE g

\* normalize: element i of the returned vector
NormalizedAt(x, i, g) ==
    LET s == At(scaler_scale_, i, g)
    IN  IF RGt(s, ScaleEpsilon)
          THEN RDiv(RSub(At(x, i, g), At(scaler_mean_, i, g)), s)
          ELSE Zero

\* prediction after the first k iterations of the accumulation loop
RECURSIVE Accumulate(_, _, _)
Accumulate(x, k, g) ==
    IF k = 0 THEN intercept_
    ELSE RAdd(Accumulate(x, k - 1, g),
              RMul(At(coefficients_, k, g), NormalizedAt(x, k, g)))

\* variant: the length of the feature vector is not checked
PreconditionFailsNoLength(x) == ~loaded_

\* the two early returns of predict
PreconditionFails(x) == ~loaded_ \/ Len(x) # n_features_

\* some element read of normalize or of the accumulation loop is out of range
OutOfRange(x) ==
    \/ Len(x) < n_features_
    \/ Len(scaler_scale_) < n_features_
    \/ Len(coefficients_) < n_features_
    \/ \E i \in 1..n_features_ :
          /\ i <= Len(scaler_scale_)
          /\ i > Len(scaler_mean_)
          /\ RGt(scaler_scale_[i], ScaleEpsilon)

predict(x) ==
    /\ pc = "running"
    /\ lastCall' = "predict"
    /\ features' = x
    /\ loadRet' = FALSE
    /\ UNCHANGED fields
    /\ IF PreconditionFails(x)
         THEN outcome' = "sentinel" /\ predictRet' = Zero /\ pc' = pc
       ELSE IF ~OutOfRange(x)
         THEN /\ outcome' = "computed"
              /\ predictRet' = Accumulate(x, n_features_, Zero)
              /\ pc' = pc
       ELSE \/ \E g \in GarbageVals :
                 /\ outcome' = "outofrange"
                 /\ predictRet' = Accumulate(x, n_features_, g)
                 /\ pc' = pc
            \/ /\ outcome' = "outofrange"
               /\ predictRet' = Zero
               /\ pc' = "crashed"

\* ------------------------------------------------------------------------
Next ==
    \/ \E doc \in Docs : loadModel(doc)
    \/ \E x \in FeatureVectors : predict(x)

Spec == Init /\ [][Next]_vars

\* ------------------------------------------------------------------------
\* Properties
\* ------------------------------------------------------------------------
LoadStep == lastCall' = "loadModel"
PredictStep == lastCall' = "predict"

\* C1: a loadModel call that returns false leaves loaded, N, coefficients,
\* intercept, scaler_mean and scaler_scale as they were before the call.
C1_FailedLoadLeavesArtifact ==
    [][LoadStep /\ ~loadRet' => fields' = fields]_vars

\* C2: while loaded, the three sequences have the same length, which is the
\* feature count N, and N >= 1.
C2_LoadedDimensionsAgree ==
    loaded_ =>
        /\ n_features_ >= 1
        /\ Len(coefficients_) = n_features_
        /\ Len(scaler_mean_) = n_features_
        /\ Len(scaler_scale_) = n_features_

\* C3: a loadModel call that ends with an empty coefficient sequence, or with
\* scaler_mean or scaler_scale of another length than the coefficients,
\* returns false and leaves loaded as it was; a call that returns true ends
\* with N > 0 and all three lengths equal to N.
C3_ValidationGate ==
    [][LoadStep =>
         /\ (\/ Len(coefficients_') = 0
             \/ Len(scaler_mean_') # Len(coefficients_')
             \/ Len(scaler_scale_') # Len(coefficients_'))
              => ~loadRet' /\ loaded_' = loaded_
         /\ loadRet' =>
              /\ n_features_' > 0
              /\ Len(coefficients_') = n_features_'
              /\ Len(scaler_mean_') = n_features_'
              /\ Len(scaler_scale_') = n_features_'
              /\ loaded_']_vars

\* a load was rejected by the validation gate on a never-loaded instance
C3_Witness ==
    /\ lastCall = "loadModel" /\ ~loadRet /\ ~loaded_
    /\ Len(coefficients_) > 0
    /\ n_features_ = Len(coefficients_)
    /\ Len(scaler_mean_) # Len(coefficients_)

\* C4: predict on an instance that is not loaded, or with a feature vector
\* whose length is not N, returns the sentinel 0.0 without evaluating the
\* formula.
C4_SentinelOnFailedPrecondition ==
    lastCall = "predict" /\ (~loaded_ \/ Len(features) # n_features_)
        => outcome = "sentinel" /\ predictRet = Zero

\* predict was called on a loaded instance with a vector of the wrong length
C4_Witness ==
    /\ lastCall = "predict" /\ loaded_
    /\ Len(features) # n_features_
    /\ outcome = "sentinel"

\* the formula of the contract, evaluated on the stored sequences
RefNormalized(x, i) ==
    IF RGt(scaler_scale_[i], ScaleEpsilon)
      THEN RDiv(RSub(x[i], scaler_mean_[i]), scaler_scale_[i])
      ELSE Zero
RECURSIVE RefSum(_, _)
RefSum(x, k) ==
    IF k = 0 THEN Zero
    ELSE RAdd(RSub(RefSum(x, k - 1), Zero),
              RMul(coefficients_[k], RefNormalized(x, k)))
RefPredict(x) == RAdd(intercept_, RefSum(x, n_features_))

\* C5: on a loaded instance, predict of a vector of exactly N entries
\* returns intercept + sum of coefficients[i] * normalized[i].
C5_PredictIsAffineFormula ==
    lastCall = "predict" /\ loaded_ /\ Len(features) = n_features_
        => outcome = "computed" /\ predictRet = RefPredict(features)

\* C6: on a loaded instance, two predict calls whose vectors of length N
\* differ only at an index whose scale is <= 1e-6 return the same result.
C6_GuardedFeatureIgnored ==
    [][(/\ lastCall = "predict" /\ PredictStep /\ loaded_
        /\ Len(features) = n_features_ /\ Len(features') = n_features_
        /\ \E i \in 1..n_features_ :
              /\ i <= Len(scaler_scale_)
              /\ ~RGt(scaler_scale_[i], ScaleEpsilon)
              /\ \A j \in (1..n_features_) \ {i} : features'[j] = features[j])
       => pc' = "running" /\ predictRet' = predictRet]_vars

\* C7: the instance starts unloaded and empty, loaded becomes true only in
\* a loadModel call that returns true, and once true it stays true.
C7_LoadedIsTerminal ==
    /\ (~loaded_ /\ n_features_ = 0 /\ intercept_ = Zero
        /\ coefficients_ = <<>> /\ scaler_mean_ = <<>> /\ scaler_scale_ = <<>>)
    /\ [][/\ (~loaded_ /\ loaded_') => (LoadStep /\ loadRet')
          /\ loaded_ => loaded_']_vars

\* a load failed on an instance that an earlier load had made loaded
C7_Witness == loaded_ /\ lastCall = "loadModel" /\ ~loadRet

\* C8: predict leaves the artifact unchanged, and repeating a predict call
\* with the same vector returns the same result.
C8_PredictHasNoSideEffects ==
    [][PredictStep =>
         /\ fields' = fields
         /\ (lastCall = "predict" /\ features' = features)
              => pc' = "running" /\ predictRet' = predictRet]_vars

Skips(key) == key.kind \in {"absent", "nonarray", "nonnumber"}
NoBadElement(doc) ==
    ~Throws(doc.coef) /\ ~Throws(doc.scaler_mean) /\ ~Throws(doc.scaler_scale)
ValidAfter(r) ==
    /\ Len(r.coefficients) > 0
    /\ Len(r.scaler_mean) = Len(r.coefficients)
    /\ Len(r.scaler_scale) = Len(r.coefficients)

C10_NoOutOfRangeRead == outcome # "outofrange"

=============================================================================
